---- MODULE Spec2Model ----
(***************************************************************************)
(* Flag lifecycle and blue-team score terms of the scoring engine:         *)
(*   scoring_engine/web/views/api/flags.py   (list, add, adjust_score,     *)
(*                                            submit, totals)              *)
(*   scoring_engine/red_team_scoring.py      (penalty setting, sums)       *)
(*   scoring_engine/checks/irc.py            (command of the IRC check)    *)
(* and the Round Scheduler as the specification describes it.              *)
(*                                                                         *)
(* Time is counted in minutes of UTC.  Strings are sequences of one-       *)
(* character strings, so that strip(), lower() and int() are computed the  *)
(* way Python computes them.  A payload key that is missing is the record  *)
(* Absent; a present one is Str(s).                                        *)
(***************************************************************************)
EXTENDS Integers, Sequences, FiniteSets, Bags, TLC

VARIABLES
    now,           \* the wall clock, minutes of UTC
    flags,         \* table flags: sequence of Flag rows, id = position
    submissions,   \* table red_flag_submissions: sequence of rows, id = position
    adjustments,   \* table score_adjustments: sequence of rows, id = position
    setting,       \* the Setting row red_team_flag_submission_penalty
    availability,  \* per team, the points of its passed checks
    pc,            \* per request worker, its position in api_flags_submit
    req,           \* per request worker, the locals of its api_flags_submit
    out,           \* the response sent by the last step, NoOut when it sent none
    invalidated,   \* the cache scopes invalidated by the last step
    rt,            \* the adjustment pair under observation (round trip), or NoRT
    early_mins,    \* the Setting row agent_show_flag_early_mins
    view,          \* the last response of GET /api/flags, NoView before any
    solves,        \* table solves: sequence of Solve rows, id = position
    totals,        \* the last response of GET /api/flags/totals, NoTotals
    round,         \* the round of the scheduler: number, status, units of work
    results,       \* table check results: the bag of CheckResult rows
    irc            \* an IRC service, its accounts and the command of its check

\* The state of the read views, the scheduler and the checks
aux == <<early_mins, view, solves, totals, round, results, irc>>

\* The state of the flag lifecycle and of the score terms
core == <<now, flags, submissions, adjustments, setting, availability,
          pc, req, out, invalidated, rt>>

vars == <<now, flags, submissions, adjustments, setting, availability,
          pc, req, out, invalidated, rt,
          early_mins, view, solves, totals, round, results, irc>>

(***************************************************************************)
(* Bounds of the model.                                                    *)
(***************************************************************************)
MaxTicks == 2
MaxFlags == 3
MaxSubs == 2
MaxAdj == 2
MaxAwards == 1
MaxRounds == 2
MaxSolves == 3

(***************************************************************************)
(* Strings.                                                                *)
(***************************************************************************)
Whitespace == {" "}
Digits == {"0", "1", "2", "3", "4", "5", "6", "7", "8", "9"}

RECURSIVE LStrip(_)
LStrip(s) ==
    IF s # <<>> /\ Head(s) \in Whitespace THEN LStrip(Tail(s)) ELSE s

RECURSIVE RStrip(_)
RStrip(s) ==
    IF s # <<>> /\ s[Len(s)] \in Whitespace
    THEN RStrip(SubSeq(s, 1, Len(s) - 1))
    ELSE s

\* str.strip()
Strip(s) == RStrip(LStrip(s))

LowerChar(c) ==
    CASE c = "T" -> "t"
      [] c = "R" -> "r"
      [] c = "U" -> "u"
      [] c = "E" -> "e"
      [] c = "O" -> "o"
      [] c = "N" -> "n"
      [] OTHER -> c

\* str.lower()
Lower(s) == [i \in 1..Len(s) |-> LowerChar(s[i])]

DigitVal(c) ==
    CASE c = "0" -> 0 [] c = "1" -> 1 [] c = "2" -> 2 [] c = "3" -> 3
      [] c = "4" -> 4 [] c = "5" -> 5 [] c = "6" -> 6 [] c = "7" -> 7
      [] c = "8" -> 8 [] c = "9" -> 9

RECURSIVE DigitsValue(_, _)
DigitsValue(s, acc) ==
    IF s = <<>> THEN acc ELSE DigitsValue(Tail(s), acc * 10 + DigitVal(Head(s)))

\* int(s) of a string: surrounding whitespace dropped, an optional sign, then
\* decimal digits; anything else raises ValueError (ok = FALSE).
ParseInt(s) ==
    LET t == Strip(s)
        signed == t # <<>> /\ Head(t) \in {"-", "+"}
        body == IF signed THEN Tail(t) ELSE t
        good == body # <<>> /\ \A i \in 1..Len(body) : body[i] \in Digits
        mag == IF good THEN DigitsValue(body, 0) ELSE 0
    IN  [ok |-> good,
         v |-> IF signed /\ Head(t) = "-" THEN 0 - mag ELSE mag]

\* payload.get(key): the key is missing, or holds a string
Absent == [present |-> FALSE, s |-> <<>>]
Str(s) == [present |-> TRUE, s |-> s]

\* Python truthiness of payload.get(key): None and "" are falsy
Truthy(x) == x.present /\ x.s # <<>>

(***************************************************************************)
(* Teams and users (set up before the competition, immutable).             *)
(***************************************************************************)
TeamIds == {1, 2, 3, 4, 5}

TeamColor(t) ==
    CASE t \in {1, 2} -> "Blue"
      [] t \in {3, 5} -> "Red"
      [] OTHER -> "White"

BlueTeams == {t \in TeamIds : TeamColor(t) = "Blue"}

\* IsBlueTarget without the test of the team's color
IsExistingTeam(team_id) == team_id \in TeamIds

\* db.session.get(Team, team_id) is not None and target_team.is_blue_team
IsBlueTarget(team_id) == team_id \in TeamIds /\ TeamColor(team_id) = "Blue"

\* current_user: id and team
RedUser == [id |-> 1, team |-> 3]
RedUser2 == [id |-> 2, team |-> 5]
WhiteUser == [id |-> 3, team |-> 4]
BlueUser == [id |-> 4, team |-> 1]

is_red_team(u) == TeamColor(u.team) = "Red"
is_white_team(u) == TeamColor(u.team) = "White"

(***************************************************************************)
(* Responses and cache scopes.                                             *)
(***************************************************************************)
Resp(code, points) == [code |-> code, points |-> points]
NoOut == Resp("none", 0)
Forbidden == Resp("403 Incorrect permissions", 0)
BadRequest == Resp("400 validation", 0)
InvalidTarget == Resp("400 target team must be a blue team", 0)
NotFound == Resp("404 flag not found", 0)
NotActive == Resp("400 flag is not currently active", 0)
Conflict == Resp("409 flag already submitted for this blue team", 0)
Ok(points) == Resp("200 ok", points)

ScopeFlags == <<"flags", 0>>
ScopeScoreboard == <<"scoreboard", 0>>
ScopeTeamStats(t) == <<"team_stats", t>>

(***************************************************************************)
(* Date-time inputs: an ISO-8601 string is empty, malformed, a wall time   *)
(* without offset, or a wall time t with a UTC offset off (minutes).       *)
(***************************************************************************)
NoDT == [kind |-> "empty", t |-> 0, off |-> 0]
BadDT == [kind |-> "malformed", t |-> 0, off |-> 0]
Naive(t) == [kind |-> "naive", t |-> t, off |-> 0]
Aware(t, off) == [kind |-> "aware", t |-> t, off |-> off]

None == [some |-> FALSE, t |-> 0]
Some(t) == [some |-> TRUE, t |-> t]

\* _parse_datetime_input that drops the offset of an aware time
ParseDropOffset(value) ==
    CASE value.kind \in {"empty", "malformed"} -> None
      [] OTHER -> Some(value.t)

\* _parse_datetime_input: None for an empty or unparsable value; a naive time
\* is taken as UTC, an aware one is converted to UTC
_parse_datetime_input(value) ==
    CASE value.kind \in {"empty", "malformed"} -> None
      [] value.kind = "naive" -> Some(value.t)
      [] OTHER -> Some(value.t - value.off)

\* x or default
OrElse(x, default) == IF x.some THEN x.t ELSE default

DefaultWindow == 180

(***************************************************************************)
(* Flags.                                                                  *)
(***************************************************************************)
\* Flag.data: the values under the keys "flag" and "content" (<<>>: no value)
FlagData(token, content) == [flag |-> token, content |-> content]

\* The flags planted at setup.  Flag 1 has its token under the key "flag" and
\* a description under "content"; flag 2 has its token under "content".
SeedFlags ==
    << [id |-> 1, platform |-> "nix", perm |-> "user",
        data |-> FlagData(<<"b", " ">>, <<"a">>),
        start_time |-> 60, end_time |-> 61, dummy |-> FALSE],
       [id |-> 2, platform |-> "nix", perm |-> "user",
        data |-> FlagData(<<>>, <<" ", "c">>),
        start_time |-> 60, end_time |-> 240, dummy |-> FALSE] >>

_get_flag_token(flag_obj) ==
    IF flag_obj.data.flag # <<>> THEN Strip(flag_obj.data.flag)
    ELSE IF flag_obj.data.content # <<>> THEN Strip(flag_obj.data.content)
    ELSE <<>>

DummyTrue == { <<"t", "r", "u", "e">>, <<"1">>, <<"y", "e", "s">>, <<"o", "n">> }

\* str(payload.get("dummy", "false")).strip().lower() in {"true","1","yes","on"}
DummyOf(dummy_in) ==
    LET raw == IF dummy_in.present THEN dummy_in.s ELSE <<"f", "a", "l", "s", "e">>
    IN  Lower(Strip(raw)) \in DummyTrue

\* The outcome of api_flags_add on the flags table f at time t:
\* the response and the table afterwards.
FlagsAddResult(f, t, user, content_in, dummy_in, start_in, end_in) ==
    LET content == Strip(IF Truthy(content_in) THEN content_in.s ELSE <<>>)
        start_time == OrElse(_parse_datetime_input(start_in), t)
        end_time == OrElse(_parse_datetime_input(end_in), start_time + DefaultWindow)
        new_flag == [id |-> Len(f) + 1,
                     platform |-> "nix",
                     perm |-> "user",
                     data |-> FlagData(<<>>, content),
                     start_time |-> start_time,
                     end_time |-> end_time,
                     dummy |-> DummyOf(dummy_in)]
    IN  IF ~is_white_team(user) THEN [resp |-> Forbidden, flags |-> f]
        ELSE IF content = <<>> THEN [resp |-> BadRequest, flags |-> f]
        ELSE IF end_time <= start_time THEN [resp |-> BadRequest, flags |-> f]
        ELSE [resp |-> Ok(0), flags |-> Append(f, new_flag)]

\* POST /api/flags/add
api_flags_add(user, content_in, dummy_in, start_in, end_in) ==
    LET r == FlagsAddResult(flags, now, user, content_in, dummy_in, start_in, end_in)
    IN  /\ Len(r.flags) <= MaxFlags
        /\ flags' = r.flags
        /\ out' = r.resp
        /\ invalidated' = IF r.resp = Ok(0) THEN {ScopeFlags} ELSE {}
        /\ UNCHANGED <<aux, now, submissions, adjustments, setting, availability,
                       pc, req, rt>>

(***************************************************************************)
(* Settings and the score terms (red_team_scoring.py).                     *)
(***************************************************************************)
DEFAULT_RED_FLAG_SUBMISSION_PENALTY == 10

\* get_red_flag_submission_penalty falling back to 0 on a malformed value
PenaltyFallbackZero(st) ==
    IF ~st.present THEN DEFAULT_RED_FLAG_SUBMISSION_PENALTY
    ELSE IF ParseInt(st.s).ok THEN ParseInt(st.s).v
    ELSE 0

\* The Setting row is missing (Absent) or holds the string value.
get_red_flag_submission_penalty(st) ==
    IF ~st.present THEN DEFAULT_RED_FLAG_SUBMISSION_PENALTY
    ELSE IF ParseInt(st.s).ok THEN ParseInt(st.s).v
    ELSE DEFAULT_RED_FLAG_SUBMISSION_PENALTY

Abs(x) == IF x < 0 THEN 0 - x ELSE x

RECURSIVE SumPoints(_, _)
\* SUM(points) over the rows targeting team t
SumPoints(rows, t) ==
    IF rows = <<>> THEN 0
    ELSE (IF Head(rows).target_team_id = t THEN Head(rows).points ELSE 0)
         + SumPoints(Tail(rows), t)

Targets(rows) == {rows[i].target_team_id : i \in 1..Len(rows)}

RECURSIVE SumAll(_)
SumAll(rows) == IF rows = <<>> THEN 0 ELSE Head(rows).points + SumAll(Tail(rows))

RECURSIVE SumAbsPoints(_, _)
SumAbsPoints(rows, t) ==
    IF rows = <<>> THEN 0
    ELSE (IF Head(rows).target_team_id = t THEN Abs(Head(rows).points) ELSE 0)
         + SumAbsPoints(Tail(rows), t)

\* get_blue_team_penalty_points whose sum is not restricted to the group
PenaltyPointsUngrouped == [t \in Targets(submissions) |-> SumAll(submissions)]

\* get_blue_team_manual_adjustment_points summing magnitudes
AdjustmentPointsUnsigned ==
    [t \in Targets(adjustments) |-> SumAbsPoints(adjustments, t)]

\* {team_id: sum} with one key per team that has a row (GROUP BY)
get_blue_team_penalty_points == [t \in Targets(submissions) |-> SumPoints(submissions, t)]

get_blue_team_manual_adjustment_points ==
    [t \in Targets(adjustments) |-> SumPoints(adjustments, t)]

\* dict.get(t, 0)
Lookup(d, t) == IF t \in DOMAIN d THEN d[t] ELSE 0

RedPenalty(t) == Lookup(get_blue_team_penalty_points, t)
ManualAdjustment(t) == Lookup(get_blue_team_manual_adjustment_points, t)

\* Total = availability - |red penalty| + manual adjustment
Total(t) == availability[t] - Abs(RedPenalty(t)) + ManualAdjustment(t)

(***************************************************************************)
(* The round trip under observation: the last adjustment of rt.team, its   *)
(* points and the team's total before it, while nothing else has touched   *)
(* that team since.  Nothing is observed while rt = RTOff.                 *)
(***************************************************************************)
RTOff == [phase |-> "off", team |-> 0, n |-> 0, before |-> 0, row |-> 0,
          others |-> FALSE]

NoRT == [phase |-> "idle", team |-> 0, n |-> 0, before |-> 0, row |-> 0,
         others |-> FALSE]

\* An adjustment of team t by points is committed
RtOnAdjust(t, points) ==
    IF rt.phase = "off" THEN rt
    ELSE IF rt.phase = "open" /\ rt.team = t /\ points = 0 - rt.n
    THEN [rt EXCEPT !.phase = "closed"]
    ELSE IF rt.phase = "open" /\ rt.team # t
    THEN [rt EXCEPT !.others = TRUE]
    ELSE [phase |-> "open", team |-> t, n |-> points, before |-> Total(t),
          row |-> Len(adjustments) + 1, others |-> FALSE]

\* A submission against team t is committed, or a check of team t is awarded
RtOnTouch(t) ==
    IF rt.phase = "off" THEN rt
    ELSE IF rt.phase = "open" /\ rt.team # t THEN [rt EXCEPT !.others = TRUE]
    ELSE NoRT

(***************************************************************************)
(* POST /api/flags/adjust_score                                            *)
(***************************************************************************)
\* NewAdjustment storing the magnitude of the points
NewAdjustmentUnsigned(user, team_id, points, reason) ==
    [target_team_id |-> team_id,
     adjusted_by_team_id |-> user.team,
     adjusted_by_user_id |-> user.id,
     points |-> Abs(points),
     reason |-> IF reason # <<>> THEN Str(reason) ELSE Absent]

\* The ScoreAdjustment row (created_at, which nothing reads, is left out)
NewAdjustment(user, team_id, points, reason) ==
    [target_team_id |-> team_id,
     adjusted_by_team_id |-> user.team,
     adjusted_by_user_id |-> user.id,
     points |-> points,
     reason |-> IF reason # <<>> THEN Str(reason) ELSE Absent]

\* The response and the row to insert (ok) of api_flags_adjust_score
AdjustScoreResult(user, team_in, points_in, reason_in) ==
    LET reason == Strip(IF Truthy(reason_in) THEN reason_in.s ELSE <<>>)
        team_id == ParseInt(team_in.s)
        points == ParseInt(points_in.s)
        none == [ok |-> FALSE, row |-> NewAdjustment(user, 0, 0, <<>>)]
    IN  IF ~is_white_team(user) THEN [resp |-> Forbidden] @@ none
        ELSE IF ~team_in.present \/ ~points_in.present THEN [resp |-> BadRequest] @@ none
        ELSE IF ~team_id.ok \/ ~points.ok THEN [resp |-> BadRequest] @@ none
        ELSE IF ~IsBlueTarget(team_id.v) THEN [resp |-> InvalidTarget] @@ none
        ELSE [resp |-> Ok(points.v), ok |-> TRUE,
              row |-> NewAdjustment(user, team_id.v, points.v, reason)]

\* api_flags_adjust_score keeping one row per target team: a later adjustment
\* overwrites the team's row instead of being added
AdjustScoreUpsert(user, team_in, points_in, reason_in) ==
    LET r == AdjustScoreResult(user, team_in, points_in, reason_in)
        old == {i \in 1..Len(adjustments) :
                  adjustments[i].target_team_id = r.row.target_team_id}
    IN  /\ r.ok => Len(adjustments) < MaxAdj
        /\ adjustments' = IF ~r.ok THEN adjustments
                          ELSE IF old = {} THEN Append(adjustments, r.row)
                          ELSE [i \in 1..Len(adjustments) |->
                                  IF i \in old THEN r.row ELSE adjustments[i]]
        /\ rt' = IF r.ok THEN RtOnAdjust(r.row.target_team_id, r.resp.points) ELSE rt
        /\ out' = r.resp
        /\ invalidated' = IF r.ok
                          THEN {ScopeScoreboard, ScopeTeamStats(r.row.target_team_id)}
                          ELSE {}
        /\ UNCHANGED <<aux, now, flags, submissions, setting, availability, pc, req>>

api_flags_adjust_score(user, team_in, points_in, reason_in) ==
    LET r == AdjustScoreResult(user, team_in, points_in, reason_in)
    IN  /\ r.ok => Len(adjustments) < MaxAdj
        /\ adjustments' = IF r.ok THEN Append(adjustments, r.row) ELSE adjustments
        /\ rt' = IF r.ok THEN RtOnAdjust(r.row.target_team_id, r.resp.points) ELSE rt
        /\ out' = r.resp
        /\ invalidated' = IF r.ok
                          THEN {ScopeScoreboard, ScopeTeamStats(r.row.target_team_id)}
                          ELSE {}
        /\ UNCHANGED <<aux, now, flags, submissions, setting, availability, pc, req>>

(***************************************************************************)
(* POST /api/flags/submit, in three steps of a request worker:             *)
(*   begin      validation, resolution, session.add        (lines 189-249) *)
(*   commit     session.commit or IntegrityError/rollback  (lines 250-254) *)
(*   invalidate cache updates and the 200 response         (lines 256-267) *)
(***************************************************************************)
Workers == {1, 2}

NoReq == [flag_id |-> 0, target_team_id |-> 0, submitted_by_team_id |-> 0,
          submitted_by_user_id |-> 0, points |-> 0]

\* payload.get("content") or payload.get("flag") or payload.get("flag_value")
\* or payload.get("submitted_flag")
SubmittedValue(payload) ==
    IF Truthy(payload.content) THEN payload.content
    ELSE IF Truthy(payload.flag) THEN payload.flag
    ELSE IF Truthy(payload.flag_value) THEN payload.flag_value
    ELSE payload.submitted_flag

\* Active with the start of the window excluded
ActiveAfterStart(flag, t) == flag.start_time < t /\ t <= flag.end_time

\* flag.start_time <= now <= flag.end_time
Active(flag, t) == flag.start_time <= t /\ t <= flag.end_time

\* TokenMatches without the skip of the candidates outside their window
TokenMatchesAnyTime(f, value, t) ==
    {i \in 1..Len(f) :
        /\ f[i].dummy = FALSE
        /\ _get_flag_token(f[i]) # <<>>
        /\ _get_flag_token(f[i]) = Strip(value)}

\* The candidates of the token scan that match (lines 222-233)
TokenMatches(f, value, t) ==
    {i \in 1..Len(f) :
        /\ f[i].dummy = FALSE
        /\ Active(f[i], t)
        /\ _get_flag_token(f[i]) # <<>>
        /\ _get_flag_token(f[i]) = Strip(value)}

\* The flag ids the resolution may yield, 0 for None.  The scan takes the
\* first match in the order the query returns the rows, which the query
\* leaves to the database.
ResolveFlag(f, flag_id, value, t) ==
    IF flag_id # 0
    THEN (IF flag_id \in 1..Len(f) THEN {flag_id} ELSE {0})
    ELSE (IF TokenMatches(f, value.s, t) = {} THEN {0} ELSE TokenMatches(f, value.s, t))

\* SubmitCheck without the test of flag.dummy
SubmitCheckNoDummy(f, t, user, team_in, flag_id, value, fid) ==
    IF ~is_red_team(user) THEN Forbidden
    ELSE IF ~Truthy(team_in) THEN BadRequest
    ELSE IF flag_id = 0 /\ ~Truthy(value) THEN BadRequest
    ELSE IF ~ParseInt(team_in.s).ok THEN BadRequest
    ELSE IF ~IsBlueTarget(ParseInt(team_in.s).v) THEN InvalidTarget
    ELSE IF fid = 0 THEN NotFound
    ELSE IF ~Active(f[fid], t) THEN NotActive
    ELSE NoOut

\* The rejection of lines 189-238, or NoOut when the request goes on
SubmitCheck(f, t, user, team_in, flag_id, value, fid) ==
    IF ~is_red_team(user) THEN Forbidden
    ELSE IF ~Truthy(team_in) THEN BadRequest
    ELSE IF flag_id = 0 /\ ~Truthy(value) THEN BadRequest
    ELSE IF ~ParseInt(team_in.s).ok THEN BadRequest
    ELSE IF ~IsBlueTarget(ParseInt(team_in.s).v) THEN InvalidTarget
    ELSE IF fid = 0 THEN NotFound
    ELSE IF f[fid].dummy \/ ~Active(f[fid], t) THEN NotActive
    ELSE NoOut

\* The RedFlagSubmission row (submitted_at, which nothing reads, is left out)
NewSubmission(user, fid, team_id, points) ==
    [flag_id |-> fid,
     target_team_id |-> team_id,
     submitted_by_team_id |-> user.team,
     submitted_by_user_id |-> user.id,
     points |-> points]

SubmitBegin(w, user, team_in, flag_id, payload) ==
    /\ pc[w] = "idle"
    /\ \E fid \in ResolveFlag(flags, flag_id, SubmittedValue(payload), now) :
         LET r == SubmitCheck(flags, now, user, team_in, flag_id,
                              SubmittedValue(payload), fid)
         IN  /\ out' = r
             /\ IF r = NoOut
                THEN /\ pc' = [pc EXCEPT ![w] = "commit"]
                     /\ req' = [req EXCEPT ![w] =
                            NewSubmission(user, fid, ParseInt(team_in.s).v,
                                          get_red_flag_submission_penalty(setting))]
                ELSE UNCHANGED <<pc, req>>
    /\ invalidated' = {}
    /\ UNCHANGED <<aux, now, flags, submissions, adjustments, setting, availability, rt>>

\* UNIQUE (flag_id, target_team_id) on red_flag_submissions: the insert of
\* row raises IntegrityError
ViolatesUnique(rows, row) ==
    \E i \in 1..Len(rows) :
        /\ rows[i].flag_id = row.flag_id
        /\ rows[i].target_team_id = row.target_team_id

\* CommitResult whose except branch lacks its return: the handler goes on to
\* the cache updates and the 200 response
CommitResultFallThrough(rows, row) ==
    IF ViolatesUnique(rows, row)
    THEN [resp |-> NoOut, rows |-> rows, next |-> "invalidate"]
    ELSE [resp |-> NoOut, rows |-> Append(rows, row), next |-> "invalidate"]

\* CommitResult whose except branch answers 409 and leaves the row in place
CommitResultNoRollback(rows, row) ==
    IF ViolatesUnique(rows, row)
    THEN [resp |-> Conflict, rows |-> Append(rows, row), next |-> "idle"]
    ELSE [resp |-> NoOut, rows |-> Append(rows, row), next |-> "invalidate"]

\* try: commit() except IntegrityError: rollback(), 409
CommitResult(rows, row) ==
    IF ViolatesUnique(rows, row)
    THEN [resp |-> Conflict, rows |-> rows, next |-> "idle"]
    ELSE [resp |-> NoOut, rows |-> Append(rows, row), next |-> "invalidate"]

SubmitCommit(w) ==
    /\ pc[w] = "commit"
    /\ LET r == CommitResult(submissions, req[w])
       IN  /\ Len(r.rows) <= MaxSubs
           /\ submissions' = r.rows
           /\ out' = r.resp
           /\ pc' = [pc EXCEPT ![w] = r.next]
           /\ req' = IF r.next = "idle" THEN [req EXCEPT ![w] = NoReq] ELSE req
           /\ rt' = IF r.next = "idle" THEN rt ELSE RtOnTouch(req[w].target_team_id)
    /\ invalidated' = {}
    /\ UNCHANGED <<aux, now, flags, adjustments, setting, availability>>

\* SubmitInvalidate without update_team_stats(target_team.id)
SubmitInvalidateNoTeamStats(w) ==
    /\ pc[w] = "invalidate"
    /\ invalidated' = {ScopeScoreboard, ScopeFlags}
    /\ out' = Ok(req[w].points)
    /\ pc' = [pc EXCEPT ![w] = "idle"]
    /\ req' = [req EXCEPT ![w] = NoReq]
    /\ UNCHANGED <<aux, now, flags, submissions, adjustments, setting, availability, rt>>

\* update_scoreboard_data(); update_team_stats(target_team.id);
\* update_flags_data(); the 200 response with points_deducted
SubmitInvalidate(w) ==
    /\ pc[w] = "invalidate"
    /\ invalidated' = {ScopeScoreboard, ScopeTeamStats(req[w].target_team_id), ScopeFlags}
    /\ out' = Ok(req[w].points)
    /\ pc' = [pc EXCEPT ![w] = "idle"]
    /\ req' = [req EXCEPT ![w] = NoReq]
    /\ UNCHANGED <<aux, now, flags, submissions, adjustments, setting, availability, rt>>

(***************************************************************************)
(* The environment: the clock, the settings table, the checks' points.     *)
(***************************************************************************)
Tick ==
    /\ now < 60 + MaxTicks
    /\ now' = now + 1
    /\ out' = NoOut
    /\ invalidated' = {}
    /\ UNCHANGED <<aux, flags, submissions, adjustments, setting, availability, pc, req, rt>>

\* The values the setting red_team_flag_submission_penalty takes
PenaltySettings ==
    { Absent, Str(<<>>), Str(<<" ", "5">>), Str(<<"+", "7">>), Str(<<"a", "b", "c">>),
      Str(<<"5", ".", "5">>) }

ChangeSetting(st) ==
    /\ st # setting
    /\ setting' = st
    /\ out' = NoOut
    /\ invalidated' = {}
    /\ UNCHANGED <<aux, now, flags, submissions, adjustments, availability, pc, req, rt>>

CheckPoints == 100

AwardedChecks == (availability[1] + availability[2]) \div CheckPoints

\* A passed check of a service of team t adds its points to the team's
\* availability score.
AwardCheck(t) ==
    /\ AwardedChecks < MaxAwards
    /\ availability' = [availability EXCEPT ![t] = @ + CheckPoints]
    /\ rt' = RtOnTouch(t)
    /\ out' = NoOut
    /\ invalidated' = {}
    /\ UNCHANGED <<aux, now, flags, submissions, adjustments, setting, pc, req>>

(***************************************************************************)
(* Initial state: the competition as set up, before any request.           *)
(***************************************************************************)
NoView == [user |-> 0, code |-> "none", data |-> <<>>]

NoTotals == [code |-> "none", data |-> <<>>]

\* The services set up for the competition; service 4 is not enabled
Services == {1, 2, 3, 4}

EnabledServices == {s \in Services : s # 4}

\* No round yet: the scheduler has created none
NoRound == [number |-> 0, status |-> "Completed",
            unit |-> [s \in EnabledServices |-> "done"],
            runs |-> [s \in EnabledServices |-> 0],
            order |-> <<>>]

NoIrc == [host |-> "", port |-> 0, properties |-> <<>>, accounts |-> {},
          command |-> <<>>]

\* Nothing listed, solved or checked yet; flags are shown from their start
AuxInit ==
    /\ early_mins = Str(<<"0">>)
    /\ view = NoView
    /\ solves = <<>>
    /\ totals = NoTotals
    /\ round = NoRound
    /\ results = EmptyBag
    /\ irc = NoIrc

Init ==
    /\ now = 60
    /\ flags = SeedFlags
    /\ submissions = <<>>
    /\ adjustments = <<>>
    /\ setting = Absent
    /\ availability = [t \in BlueTeams |-> 0]
    /\ pc = [w \in Workers |-> "idle"]
    /\ req = [w \in Workers |-> NoReq]
    /\ out = NoOut
    /\ invalidated = {}
    /\ rt = RTOff
    /\ AuxInit

\* The same state, with adjustment round trips observed
InitObserved ==
    /\ now = 60
    /\ flags = SeedFlags
    /\ submissions = <<>>
    /\ adjustments = <<>>
    /\ setting = Absent
    /\ availability = [t \in BlueTeams |-> 0]
    /\ pc = [w \in Workers |-> "idle"]
    /\ req = [w \in Workers |-> NoReq]
    /\ out = NoOut
    /\ invalidated = {}
    /\ rt = NoRT
    /\ AuxInit

(***************************************************************************)
(* Requests.                                                               *)
(***************************************************************************)
Payload(content, flag, flag_value, submitted_flag) ==
    [content |-> content, flag |-> flag, flag_value |-> flag_value,
     submitted_flag |-> submitted_flag]

NoToken == Payload(Absent, Absent, Absent, Absent)

\* A submit request: by flag id, or by token under one of the four keys
ById(user, team, flag_id) ==
    [user |-> user, team_in |-> team, flag_id |-> flag_id, payload |-> NoToken]
ByToken(user, team, payload) ==
    [user |-> user, team_in |-> team, flag_id |-> 0, payload |-> payload]

AddRequest(user, content, dummy, start, end) ==
    [user |-> user, content_in |-> content, dummy_in |-> dummy,
     start_in |-> start, end_in |-> end]

AdjustRequest(user, team, points, reason) ==
    [user |-> user, team_in |-> team, points_in |-> points, reason_in |-> reason]

SubmitOf(W, R) ==
    \E w \in W, r \in R : SubmitBegin(w, r.user, r.team_in, r.flag_id, r.payload)

AddOf(R) ==
    \E r \in R : api_flags_add(r.user, r.content_in, r.dummy_in, r.start_in, r.end_in)

AdjustOf(R) ==
    \E r \in R : api_flags_adjust_score(r.user, r.team_in, r.points_in, r.reason_in)

Commit == \E w \in Workers : SubmitCommit(w)

Invalidate == \E w \in Workers : SubmitInvalidate(w)

(***************************************************************************)
(* Spec: two request workers serve submissions of two red teams against    *)
(* both blue teams while the clock runs.                                   *)
(***************************************************************************)
ConcurrentSubmits ==
    { ById(RedUser, Str(<<"1">>), 1),
      ById(RedUser2, Str(<<"1">>), 1),
      ById(RedUser, Str(<<" ", "2">>), 1),
      ById(RedUser, Str(<<"1">>), 2),
      ById(WhiteUser, Str(<<"1">>), 1),
      ByToken(RedUser2, Str(<<"1">>), Payload(Absent, Str(<<"b">>), Absent, Absent)) }

Submit == SubmitOf(Workers, ConcurrentSubmits)

Next == Tick \/ Submit \/ Commit \/ Invalidate

Spec == Init /\ [][Next]_vars

(***************************************************************************)
(* Properties of the submissions table.                                    *)
(***************************************************************************)
\* The rows of the table for the pair (flag f, target team t)
PairRows(rows, f, t) ==
    {i \in 1..Len(rows) : rows[i].flag_id = f /\ rows[i].target_team_id = t}

PairCount(rows, f, t) == Cardinality(PairRows(rows, f, t))

FlagIds == 1..Len(flags)

\* Worker w takes its commit step
Commits(w) == pc[w] = "commit" /\ pc'[w] # "commit"

AtMostOnePerPair ==
    \A f \in FlagIds, t \in TeamIds : PairCount(submissions, f, t) <= 1

\* C1: at most one RedFlagSubmission row exists for each (flag, target team)
\* pair, whatever submits ran; a submit whose pair already has a row is
\* answered 409 Conflict and leaves exactly one row for the pair.
C1_OneRowPerPair ==
    /\ []AtMostOnePerPair
    /\ [][\A w \in Workers :
            (Commits(w) /\ PairCount(submissions, req[w].flag_id, req[w].target_team_id) >= 1)
            => /\ out' = Conflict
               /\ PairCount(submissions', req[w].flag_id, req[w].target_team_id) = 1]_vars

\* A second submit for a pair was just answered Conflict, and the pair has its row.
C1_Witness ==
    /\ out = Conflict
    /\ \E f \in FlagIds, t \in BlueTeams : PairCount(submissions, f, t) = 1

SamePair(a, b) == a.flag_id = b.flag_id /\ a.target_team_id = b.target_team_id

\* C2: of the submits for one pair that all passed the window check before
\* any of them committed, the first commit inserts its row and every other
\* one is rolled back and answered Conflict; the target team never carries
\* two penalties for one flag.
C2_ConcurrentSubmits ==
    /\ [][\A w \in Workers :
            Commits(w) =>
               IF ViolatesUnique(submissions, req[w])
               THEN /\ out' = Conflict
                    /\ submissions' = submissions
                    /\ pc'[w] = "idle"
               ELSE /\ submissions' = Append(submissions, req[w])
                    /\ pc'[w] = "invalidate"
                    /\ \A v \in Workers \ {w} :
                          (pc[v] = "commit" /\ SamePair(req[v], req[w]))
                          => /\ pc'[v] = "commit"
                             /\ ViolatesUnique(submissions', req'[v])]_vars
    /\ [](\A f \in FlagIds, t \in BlueTeams :
            \A i, j \in PairRows(submissions, f, t) : i = j)

\* Both workers hold an insert for the same pair, neither committed yet.
C2_Witness ==
    /\ pc[1] = "commit" /\ pc[2] = "commit"
    /\ SamePair(req[1], req[2])
    /\ ~ViolatesUnique(submissions, req[1])

(***************************************************************************)
(* SpecScore: a red team submits the planted flags under two penalty       *)
(* settings while the white team adjusts a score and a check is awarded.   *)
(***************************************************************************)
ScoreSubmits ==
    { ById(RedUser, Str(<<"1">>), 1),
      ById(RedUser, Str(<<"1">>), 2),
      ById(RedUser, Str(<<" ", "2">>), 1) }

ScoreAdjusts ==
    { AdjustRequest(WhiteUser, Str(<<"1">>), Str(<<"-", "2", "0">>), Absent),
      AdjustRequest(RedUser, Str(<<"1">>), Str(<<"5", "0">>), Absent) }

ScorePenalties == { Absent, Str(<<" ", "5">>) }

ScoreSetting == \E st \in ScorePenalties : ChangeSetting(st)

ScoreSubmit == SubmitOf({1}, ScoreSubmits)

ScoreAdjust == AdjustOf(ScoreAdjusts)

ScoreAward == AwardCheck(1)

NextScore ==
    ScoreSetting \/ ScoreSubmit \/ Commit \/ Invalidate \/ ScoreAdjust \/ ScoreAward

SpecScore == Init /\ [][NextScore]_vars

(***************************************************************************)
(* Properties of the score terms.                                          *)
(***************************************************************************)
RowsOf(rows, t) == {i \in 1..Len(rows) : rows[i].target_team_id = t}

RECURSIVE PointsOver(_, _)
\* The sum of the points of the rows at the positions S
PointsOver(S, rows) ==
    IF S = {} THEN 0
    ELSE LET i == CHOOSE k \in S : TRUE
         IN  rows[i].points + PointsOver(S \ {i}, rows)

\* Worker w's commit step inserts its row
Inserts(w) == pc[w] = "commit" /\ pc'[w] = "invalidate"

\* C5: a submit answered Conflict changes no table and no team's penalty or
\* adjustment sum, invalidates no cache scope, and leaves its worker idle,
\* so that the cache updates of the success path are never reached.
C5_ConflictNoSideEffects ==
    [][\A w \in Workers :
         (Commits(w) /\ out' = Conflict)
         => /\ submissions' = submissions
            /\ adjustments' = adjustments
            /\ flags' = flags
            /\ \A t \in TeamIds :
                  /\ RedPenalty(t)' = RedPenalty(t)
                  /\ ManualAdjustment(t)' = ManualAdjustment(t)
            /\ invalidated' = {}
            /\ pc'[w] = "idle"]_vars

\* A Conflict was just answered while submissions and adjustments exist.
C5_Witness ==
    /\ out = Conflict
    /\ invalidated = {}
    /\ Len(submissions) >= 1
    /\ Len(adjustments) >= 1

AdjustRequests ==
    { AdjustRequest(WhiteUser, Str(<<"1">>), Str(<<"5", "0">>), Str(<<"b", "o", "n", "u", "s">>)),
      AdjustRequest(WhiteUser, Str(<<"1">>), Str(<<"-", "2", "0">>), Absent),
      AdjustRequest(WhiteUser, Str(<<"1">>), Str(<<" ", "-", "5", "0">>), Str(<<" ">>)),
      AdjustRequest(WhiteUser, Str(<<"2">>), Str(<<"+", "5", "0">>), Absent),
      AdjustRequest(WhiteUser, Str(<<"3">>), Str(<<"5", "0">>), Absent),
      AdjustRequest(WhiteUser, Str(<<"1">>), Str(<<"5", ".", "0">>), Absent),
      AdjustRequest(WhiteUser, Absent, Str(<<"5", "0">>), Absent),
      AdjustRequest(RedUser, Str(<<"1">>), Str(<<"5", "0">>), Absent) }

AdjustSubmits == { ById(RedUser, Str(<<"2">>), 1) }

Adjust == AdjustOf(AdjustRequests)

AdjustSubmit == SubmitOf({1}, AdjustSubmits)

Award == \E t \in BlueTeams : AwardCheck(t)

NextAdjust == Adjust \/ Award \/ AdjustSubmit \/ Commit \/ Invalidate

SpecAdjust == InitObserved /\ [][NextAdjust]_vars

(***************************************************************************)
(* Properties of the manual adjustments.                                   *)
(***************************************************************************)
\* An adjust_score step inserts its row
Adjusts == Len(adjustments') = Len(adjustments) + 1

LastRow(rows) == rows[Len(rows)]

\* C7: the manual-adjustment term of each blue team is the signed sum of the
\* points of the ScoreAdjustment rows targeting it (+50 then -20 on a team
\* gives +30), and an adjustment changes the term of its target team only.
C7_ManualAdjustmentSum ==
    /\ [](\A t \in BlueTeams :
            ManualAdjustment(t) = PointsOver(RowsOf(adjustments, t), adjustments))
    /\ [](\A t \in BlueTeams :
            (/\ Len(adjustments) = 2
             /\ RowsOf(adjustments, t) = {1, 2}
             /\ adjustments[1].points = 50
             /\ adjustments[2].points = 0 - 20)
            => ManualAdjustment(t) = 30)
    /\ [][Adjusts =>
            \A t \in BlueTeams :
               ManualAdjustment(t)' =
                  ManualAdjustment(t)
                  + (IF t = LastRow(adjustments').target_team_id
                     THEN out'.points ELSE 0)]_vars

\* +50 then -20 on team 1: the term is +30.
C7_Witness ==
    /\ Len(adjustments) = 2
    /\ adjustments[1].points = 50
    /\ adjustments[2].points = 0 - 20
    /\ ManualAdjustment(1) = 30

\* C8: adjust_score(team, +n) followed by adjust_score(team, -n), with
\* operations on other teams in between, leaves the team's total at its
\* value before the two adjustments; both audit rows are in the table.
C8_RoundTrip ==
    [][(rt.phase = "open" /\ rt'.phase = "closed")
       => /\ Total(rt.team)' = rt.before
          /\ Len(adjustments') = Len(adjustments) + 1
          /\ rt.row < Len(adjustments')
          /\ adjustments'[rt.row].target_team_id = rt.team
          /\ LastRow(adjustments').target_team_id = rt.team
          /\ adjustments'[rt.row].points = rt.n
          /\ LastRow(adjustments').points = 0 - rt.n]_vars

\* A round trip was completed with an operation on another team in between.
C8_Witness ==
    /\ rt.phase = "closed"
    /\ rt.others
    /\ rt.n # 0
    /\ Total(rt.team) = rt.before

(***************************************************************************)
(* SpecResolve: flags are created around the running clock and a red team  *)
(* submits by id and by token.                                             *)
(***************************************************************************)
ResolveAdds ==
    { AddRequest(WhiteUser, Str(<<"b">>), Absent, Naive(61), Naive(62)),
      AddRequest(WhiteUser, Str(<<" ", "a">>), Str(<<"T", "r", "u", "e", " ">>), Naive(60), NoDT),
      AddRequest(WhiteUser, Str(<<"a">>), Str(<<"n", "o">>), Aware(121, 60), NoDT),
      AddRequest(RedUser, Str(<<"a">>), Absent, NoDT, NoDT) }

ResolveSubmits ==
    { ById(RedUser, Str(<<"1">>), 1),
      ById(RedUser, Str(<<"1">>), 2),
      ById(RedUser, Str(<<"1">>), 3),
      ById(RedUser, Str(<<"1">>), 4),
      ById(RedUser, Str(<<"3">>), 3),
      ById(RedUser, Absent, 1),
      ById(WhiteUser, Str(<<"1">>), 3),
      ByToken(RedUser, Str(<<"1">>), Payload(Str(<<"a">>), Absent, Absent, Absent)),
      ByToken(RedUser, Str(<<"1">>), Payload(Str(<<>>), Str(<<" ", "b">>), Absent, Absent)),
      ByToken(RedUser, Str(<<"1">>), Payload(Absent, Absent, Str(<<"c", " ">>), Str(<<"a">>))),
      ByToken(RedUser, Str(<<"1">>), Payload(Absent, Absent, Absent, Str(<<"z">>))),
      ByToken(RedUser, Str(<<"1">>), NoToken) }

ResolveAdd == AddOf(ResolveAdds)

ResolveSubmit == SubmitOf({1}, ResolveSubmits)

NextResolve == Tick \/ ResolveAdd \/ ResolveSubmit \/ Commit \/ Invalidate

SpecResolve == Init /\ [][NextResolve]_vars

(***************************************************************************)
(* Properties of the resolution and of the active window.                  *)
(***************************************************************************)
\* The request passes the checks that precede the resolution
WellFormed(r) ==
    /\ is_red_team(r.user)
    /\ Truthy(r.team_in)
    /\ r.flag_id # 0 \/ Truthy(SubmittedValue(r.payload))
    /\ ParseInt(r.team_in.s).ok
    /\ ParseInt(r.team_in.s).v \in BlueTeams

Resolutions(r) == ResolveFlag(flags, r.flag_id, SubmittedValue(r.payload), now)

CheckOf(r, fid) ==
    SubmitCheck(flags, now, r.user, r.team_in, r.flag_id, SubmittedValue(r.payload), fid)

Begins(w) == pc[w] = "idle" /\ pc'[w] = "commit"

Responds(w) == pc[w] = "invalidate" /\ pc'[w] = "idle"

\* C3: a submit whose flag is resolved is answered NotActive, and creates no
\* row, exactly when the flag is dummy or now is outside
\* [start_time, end_time]: so at start_time - 1 it is NotActive, and at
\* start_time, for a non-dummy flag, a blue target and a pair without a
\* row, it goes on, inserts its row and is answered 200.
C3_ActiveWindow ==
    /\ [](\A r \in ResolveSubmits : \A fid \in Resolutions(r) :
            (WellFormed(r) /\ fid # 0)
            => IF \/ flags[fid].dummy
                  \/ now < flags[fid].start_time
                  \/ now > flags[fid].end_time
               THEN CheckOf(r, fid) = NotActive
               ELSE CheckOf(r, fid) = NoOut)
    /\ [][out' = NotActive => (submissions' = submissions /\ pc' = pc /\ req' = req)]_vars
    /\ [][\A w \in Workers :
            /\ Begins(w) =>
                 /\ req'[w].flag_id \in FlagIds
                 /\ ~flags[req'[w].flag_id].dummy
                 /\ flags[req'[w].flag_id].start_time <= now
                 /\ now <= flags[req'[w].flag_id].end_time
            /\ (Commits(w) /\ PairCount(submissions, req[w].flag_id,
                                        req[w].target_team_id) = 0)
               => submissions' = Append(submissions, req[w])
            /\ Responds(w) => out' = Ok(req[w].points)]_vars

\* One minute before the start of a non-dummy flag a submit was answered
\* NotActive.
C3_Witness ==
    /\ out = NotActive
    /\ \E f \in FlagIds : ~flags[f].dummy /\ flags[f].start_time = now + 1

\* The flags whose stripped token is the stripped submitted value
Holders(r) ==
    {i \in FlagIds :
        LET d == flags[i].data
        IN  Strip(IF d.flag # <<>> THEN d.flag ELSE d.content)
            = Strip(SubmittedValue(r.payload).s)}

ActiveHolders(r) ==
    {i \in Holders(r) :
        ~flags[i].dummy /\ flags[i].start_time <= now /\ now <= flags[i].end_time}

ByTokenRequests == {r \in ResolveSubmits : WellFormed(r) /\ r.flag_id = 0}

\* C4 as stated: a token resolves to the active non-dummy flag that holds
\* it; no flag holds it: NotFound; only expired or not yet started flags
\* hold it: NotActive.
C4_AsStated ==
    \A r \in ByTokenRequests : \A fid \in Resolutions(r) :
        /\ ActiveHolders(r) # {} => (fid \in ActiveHolders(r) /\ CheckOf(r, fid) = NoOut)
        /\ Holders(r) = {} => CheckOf(r, fid) = NotFound
        /\ (/\ Holders(r) # {}
            /\ \A i \in Holders(r) : now < flags[i].start_time \/ now > flags[i].end_time)
           => CheckOf(r, fid) = NotActive

\* C4, amended: a token resolves to an active non-dummy flag that holds it;
\* when no active non-dummy flag holds it (no flag at all, or only expired,
\* not yet started or dummy ones) the answer is NotFound, never NotActive.
C4_TokenResolution ==
    /\ [](\A r \in ByTokenRequests : \A fid \in Resolutions(r) :
            IF ActiveHolders(r) # {}
            THEN fid \in ActiveHolders(r) /\ CheckOf(r, fid) = NoOut
            ELSE fid = 0 /\ CheckOf(r, fid) = NotFound)
    /\ [][out' = NotFound => (submissions' = submissions /\ pc' = pc /\ req' = req)]_vars

\* A token held only by a flag outside its window was just answered NotFound.
C4_Witness ==
    /\ out = NotFound
    /\ \E r \in ByTokenRequests :
          /\ Holders(r) # {}
          /\ ActiveHolders(r) = {}
          /\ \A i \in Holders(r) : ~flags[i].dummy

(***************************************************************************)
(* SpecPenalty: the penalty setting changes while a red team submits.      *)
(***************************************************************************)
PenaltySubmits ==
    { ById(RedUser, Str(<<"1">>), 1),
      ById(RedUser, Str(<<"1">>), 2) }

PenaltySetting == \E st \in PenaltySettings : ChangeSetting(st)

PenaltySubmit == SubmitOf({1}, PenaltySubmits)

NextPenalty == PenaltySetting \/ PenaltySubmit \/ Commit \/ Invalidate

SpecPenalty == Init /\ [][NextPenalty]_vars

\* What the setting means: the integer it spells, 10 when it is missing or
\* spells none
IntendedPenalty(st) ==
    CASE st = Str(<<" ", "5">>) -> 5
      [] st = Str(<<"+", "7">>) -> 7
      [] OTHER -> 10

\* C6: the points of a submission are the setting
\* red_team_flag_submission_penalty read as an integer when the submit runs,
\* 10 when the setting is missing or is no integer; these points are stored
\* in the row and returned as points_deducted.
C6_PenaltyPoints ==
    [][\A w \in Workers :
         /\ Begins(w) => req'[w].points = IntendedPenalty(setting)
         /\ Inserts(w) =>
              /\ Len(submissions') = Len(submissions) + 1
              /\ LastRow(submissions').points = req[w].points
         /\ Responds(w) =>
              \E i \in 1..Len(submissions) :
                 /\ SamePair(submissions[i], req[w])
                 /\ out' = Ok(submissions[i].points)]_vars

\* Under a malformed setting a submission was answered with 10 points, after
\* one of 5 points under the setting " 5".
C6_Witness ==
    /\ setting = Str(<<"a", "b", "c">>)
    /\ out = Ok(10)
    /\ Len(submissions) = 2
    /\ submissions[1].points = 5
    /\ submissions[2].points = 10

(***************************************************************************)
(* SpecAdd: the white team creates flags with every form of start and end  *)
(* time while the clock runs.                                              *)
(***************************************************************************)
TimeInputs ==
    { NoDT, BadDT, Naive(59), Naive(60), Naive(61), Naive(300),
      Aware(121, 60), Aware(1, 0 - 60) }

CreateRequests ==
    { AddRequest(WhiteUser, Str(<<" ", "a">>), d, st, en) :
        d \in { Absent, Str(<<"o", "N">>) }, st \in TimeInputs, en \in TimeInputs }
    \cup { AddRequest(WhiteUser, Str(<<" ">>), Absent, NoDT, NoDT),
           AddRequest(WhiteUser, Absent, Absent, NoDT, NoDT),
           AddRequest(BlueUser, Str(<<"a">>), Absent, NoDT, NoDT) }

Create == AddOf(CreateRequests)

NextAdd == Tick \/ Create

SpecAdd == Init /\ [][NextAdd]_vars

\* The instant a time input denotes, or the default when it denotes none
Effective(value, default) ==
    IF value.kind = "naive" THEN value.t
    ELSE IF value.kind = "aware" THEN value.t - value.off
    ELSE default

EffectiveStart(r) == Effective(r.start_in, now)

EffectiveEnd(r) == Effective(r.end_in, EffectiveStart(r) + 180)

\* C10: every flag has start_time < end_time; create-flag rejects, and
\* persists nothing for, a request whose effective end_time is at or before
\* its effective start_time (start_time defaults to now, end_time to
\* start_time + 3h), and otherwise stores the effective times.
C10_FlagWindow ==
    /\ [](\A f \in FlagIds : flags[f].start_time < flags[f].end_time)
    /\ [](\A r \in CreateRequests :
            LET res == FlagsAddResult(flags, now, r.user, r.content_in, r.dummy_in,
                                      r.start_in, r.end_in)
            IN  (is_white_team(r.user) /\ Strip(r.content_in.s) # <<>>)
                => IF EffectiveEnd(r) <= EffectiveStart(r)
                   THEN res.resp = BadRequest /\ res.flags = flags
                   ELSE /\ res.resp = Ok(0)
                        /\ Len(res.flags) = Len(flags) + 1
                        /\ LastRow(res.flags).start_time = EffectiveStart(r)
                        /\ LastRow(res.flags).end_time = EffectiveEnd(r))
    /\ [][/\ out' = BadRequest => flags' = flags
          /\ flags' # flags =>
               /\ out' = Ok(0)
               /\ SubSeq(flags', 1, Len(flags)) = flags
               /\ LastRow(flags').start_time < LastRow(flags').end_time]_vars

\* A request whose end, brought to UTC, is not after its start was just
\* rejected, and a flag with the default three-hour window exists.
C10_Witness ==
    /\ out = BadRequest
    /\ \E f \in FlagIds :
          flags[f].start_time = 61 /\ flags[f].end_time = 61 + 180

(***************************************************************************)
(* GET /api/flags: the flags shown to the white team and to a red team.    *)
(***************************************************************************)
ViewOf(user, code, data) == [user |-> user.id, code |-> code, data |-> data]

\* ListedByWindow comparing start_time with now, the lookahead left out
ListedWithoutLookahead(f, t, early) ==
    {i \in 1..Len(f) :
        /\ t > f[i].start_time
        /\ t < f[i].end_time
        /\ f[i].dummy = FALSE}

\* The filter of the query: early > start_time, now < end_time, not dummy
ListedByWindow(f, t, early) ==
    {i \in 1..Len(f) :
        /\ early > f[i].start_time
        /\ t < f[i].end_time
        /\ f[i].dummy = FALSE}

\* submitted_flag_ids without the filter on the submitting team
SubmittedByAnyTeam(rows, team) == {rows[i].flag_id : i \in 1..Len(rows)}

\* The flag ids of the RedFlagSubmission rows submitted by the team
submitted_flag_ids(rows, team) ==
    {rows[i].flag_id : i \in {k \in 1..Len(rows) : rows[k].submitted_by_team_id = team}}

\* The ids of the flags the response holds for the user
ListedIds(f, rows, t, early, user) ==
    IF is_red_team(user)
    THEN ListedByWindow(f, t, early) \cap submitted_flag_ids(rows, user.team)
    ELSE ListedByWindow(f, t, early)

\* ORDER BY start_time: the orders of the ids S the database may return
OrderedByStart(f, S) ==
    {q \in [1..Cardinality(S) -> S] :
        /\ \A i, j \in DOMAIN q : i # j => q[i] # q[j]
        /\ \A i, j \in DOMAIN q : i < j => f[q[i]].start_time <= f[q[j]].start_time}

\* One entry of the response
ListItem(flag_obj) ==
    [id |-> flag_obj.id, flag |-> _get_flag_token(flag_obj),
     content |-> flag_obj.data.content]

\* The responses GET /api/flags may give the user.  int() of the setting
\* agent_show_flag_early_mins raises when the row is missing or malformed.
ListResponses(user) ==
    IF ~(is_red_team(user) \/ is_white_team(user))
    THEN {ViewOf(user, "403 Unauthorized", <<>>)}
    ELSE IF ~early_mins.present \/ ~ParseInt(early_mins.s).ok
    THEN {ViewOf(user, "500 error", <<>>)}
    ELSE {ViewOf(user, "200 ok", [i \in DOMAIN q |-> ListItem(flags[q[i]])]) :
            q \in OrderedByStart(flags,
                     ListedIds(flags, submissions, now,
                               now + ParseInt(early_mins.s).v, user))}

api_flags(user) ==
    /\ view' \in ListResponses(user)
    /\ out' = NoOut
    /\ invalidated' = {}
    /\ UNCHANGED <<now, flags, submissions, adjustments, setting, availability,
                   pc, req, rt, early_mins, solves, totals, round, results, irc>>

\* The setting agent_show_flag_early_mins is changed
ChangeEarly(st) ==
    /\ st # early_mins
    /\ early_mins' = st
    /\ out' = NoOut
    /\ invalidated' = {}
    /\ UNCHANGED <<now, flags, submissions, adjustments, setting, availability,
                   pc, req, rt, view, solves, totals, round, results, irc>>

(***************************************************************************)
(* SpecList: the white team plants a decoy and a later flag, two red teams *)
(* submit, and every role lists the flags while the clock runs.            *)
(***************************************************************************)
EarlySettings == { Str(<<"0">>), Str(<<" ", "1">>) }

ListAdds ==
    { AddRequest(WhiteUser, Str(<<"d">>), Str(<<"1">>), Naive(59), NoDT),
      AddRequest(WhiteUser, Str(<<"e">>), Absent, Naive(62), NoDT) }

ListSubmits ==
    { ById(RedUser, Str(<<"1">>), 2),
      ById(RedUser2, Str(<<"1">>), 2),
      ById(RedUser2, Str(<<"4">>), 2),
      ById(RedUser, Str(<<"1">>), 3),
      ByToken(RedUser, Str(<<"1">>), Payload(Str(<<"d">>), Absent, Absent, Absent)) }

ListUsers == {WhiteUser, RedUser, RedUser2, BlueUser}

ListEarly == \E st \in EarlySettings : ChangeEarly(st)

ListAdd == AddOf(ListAdds)

ListSubmit == SubmitOf({1}, ListSubmits)

List == \E u \in ListUsers : api_flags(u)

NextList == Tick \/ ListEarly \/ ListAdd \/ ListSubmit \/ Commit \/ Invalidate \/ List

SpecList == Init /\ [][NextList]_vars

(***************************************************************************)
(* Properties of the listing.                                              *)
(***************************************************************************)
\* The flag ids of a response
IdsOf(v) == {v.data[i].id : i \in DOMAIN v.data}

\* A listing step answers the user with 200
Lists(user) == view' # view /\ view'.user = user.id /\ view'.code = "200 ok"

\* The lookahead in minutes the setting spells
Lookahead == ParseInt(early_mins.s).v

\* C11: the white team is shown exactly the non-dummy flags with
\* now < end_time and now + lookahead >= start_time, the flags that start
\* exactly at now + lookahead included, and never a dummy flag.
C11_AsStated ==
    [][Lists(WhiteUser) =>
         /\ IdsOf(view') = {i \in FlagIds :
                              /\ ~flags[i].dummy
                              /\ now < flags[i].end_time
                              /\ now + Lookahead >= flags[i].start_time}
         /\ \A i \in IdsOf(view') : ~flags[i].dummy]_vars

RedUsers == {u \in ListUsers : is_red_team(u)}

\* The team holds a committed RedFlagSubmission for the flag
HoldsSubmission(team, f) ==
    \E i \in 1..Len(submissions) :
        /\ submissions[i].flag_id = f
        /\ submissions[i].submitted_by_team_id = team

\* The flags for which the team holds a committed RedFlagSubmission
Granted(team) == {f \in FlagIds : HoldsSubmission(team, f)}

\* The flag ids some response to the user would hold now
Shown(user) == UNION {IdsOf(v) : v \in ListResponses(user)}

\* C12: a response to a red team holds a flag only if that team has a
\* committed RedFlagSubmission for it: a row of another red team, or a row
\* still waiting for its commit, shows nothing, and a submit answered
\* Conflict, NotActive or InvalidTarget adds no flag to those a red team
\* holds a submission for.
C12_RedVisibility ==
    /\ [](\A u \in RedUsers : \A f \in Shown(u) : HoldsSubmission(u.team, f))
    /\ [][\A u \in RedUsers :
            Lists(u) => \A f \in IdsOf(view') : HoldsSubmission(u.team, f)]_vars
    /\ [][out' \in {Conflict, NotActive, InvalidTarget}
          => \A u \in RedUsers : Granted(u.team)' = Granted(u.team)]_vars

\* Red team 3 was just shown flag 2, which it submitted, while red team 5
\* holds no submission.
C12_Witness ==
    /\ view.user = RedUser.id
    /\ IdsOf(view) = {2}
    /\ HoldsSubmission(RedUser.team, 2)
    /\ ~HoldsSubmission(RedUser2.team, 2)
    /\ Shown(RedUser2) = {}

\* The submissions whose flag is not a dummy
RealRows(rows, t) == {i \in RowsOf(rows, t) : ~flags[rows[i].flag_id].dummy}

\* C15: no RedFlagSubmission references a dummy flag: a submit by id that
\* names one is answered NotActive and the token scan never yields one; no
\* response of GET /api/flags holds one; every team's penalty is the sum over
\* the rows of flags that are not dummies.
C15_DummyExcluded ==
    /\ [](\A i \in 1..Len(submissions) : ~flags[submissions[i].flag_id].dummy)
    /\ [](\A w \in Workers : pc[w] # "idle" => ~flags[req[w].flag_id].dummy)
    /\ [](\A r \in ListSubmits : \A fid \in Resolutions(r) :
            (WellFormed(r) /\ fid # 0 /\ flags[fid].dummy)
            => (r.flag_id # 0 /\ CheckOf(r, fid) = NotActive))
    /\ [](\A u \in ListUsers : \A f \in Shown(u) : ~flags[f].dummy)
    /\ [](\A t \in BlueTeams :
            RedPenalty(t) = PointsOver(RealRows(submissions, t), submissions))

\* With the decoy planted and inside its window, a submit naming it was just
\* answered NotActive.
C15_Witness ==
    /\ out = NotActive
    /\ now = 60
    /\ Len(flags) = 3
    /\ flags[3].dummy
    /\ flags[3].start_time <= now /\ now <= flags[3].end_time

(***************************************************************************)
(* SpecTarget: submits and adjustments name blue teams, teams of another   *)
(* color, teams that do not exist and values that are no team id.          *)
(***************************************************************************)
TargetInputs ==
    { Str(<<"1">>), Str(<<"2">>), Str(<<"3">>), Str(<<"4">>), Str(<<"9">>),
      Str(<<"0">>), Str(<<"-", "1">>), Str(<<"x">>) }

TargetSubmits ==
    { ById(RedUser, t, 2) : t \in TargetInputs }
    \cup { ByToken(RedUser, Str(<<"3">>), Payload(Absent, Str(<<"c">>), Absent, Absent)) }

TargetAdjusts ==
    { AdjustRequest(WhiteUser, t, Str(<<"-", "5">>), Absent) : t \in TargetInputs }

TargetSubmit == SubmitOf({1}, TargetSubmits)

TargetAdjust == AdjustOf(TargetAdjusts)

NextTarget == TargetSubmit \/ Commit \/ Invalidate \/ TargetAdjust \/ Award

SpecTarget == Init /\ [][NextTarget]_vars

\* The value names a team that exists and is Blue
NamesBlue(team_in) ==
    /\ team_in.present
    /\ ParseInt(team_in.s).ok
    /\ ParseInt(team_in.s).v \in BlueTeams

\* C13: a submit or an adjust_score whose target does not exist or is not a
\* blue team is rejected (InvalidTarget when the value is a team id), inserts
\* no row and changes no team's total; every RedFlagSubmission and every
\* ScoreAdjustment, committed or waiting for its commit, targets a blue team.
C13_InvalidTarget ==
    /\ [](\A r \in TargetSubmits : \A fid \in Resolutions(r) :
            ~NamesBlue(r.team_in)
            => /\ CheckOf(r, fid) \in {InvalidTarget, BadRequest}
               /\ ParseInt(r.team_in.s).ok => CheckOf(r, fid) = InvalidTarget)
    /\ [](\A r \in TargetAdjusts :
            LET res == AdjustScoreResult(r.user, r.team_in, r.points_in, r.reason_in)
            IN  ~NamesBlue(r.team_in)
                => /\ ~res.ok
                   /\ res.resp \in {InvalidTarget, BadRequest}
                   /\ ParseInt(r.team_in.s).ok => res.resp = InvalidTarget)
    /\ [][out' \in {InvalidTarget, BadRequest}
          => /\ submissions' = submissions
             /\ adjustments' = adjustments
             /\ pc' = pc
             /\ \A t \in BlueTeams : Total(t)' = Total(t)]_vars
    /\ [](\A i \in 1..Len(submissions) : submissions[i].target_team_id \in BlueTeams)
    /\ [](\A i \in 1..Len(adjustments) : adjustments[i].target_team_id \in BlueTeams)
    /\ [](\A w \in Workers : pc[w] # "idle" => req[w].target_team_id \in BlueTeams)

\* With a submission and an adjustment in place, a request naming a team
\* that is not blue was just answered InvalidTarget.
C13_Witness ==
    /\ out = InvalidTarget
    /\ Len(submissions) >= 1
    /\ Len(adjustments) >= 1

(***************************************************************************)
(* SpecCache: two request workers serve submits while the white team       *)
(* adjusts scores and creates flags; a worker that has committed goes on   *)
(* to its cache updates.                                                   *)
(***************************************************************************)
CacheSubmits ==
    { ById(RedUser, Str(<<"1">>), 2),
      ById(RedUser2, Str(<<"1">>), 2),
      ById(RedUser, Str(<<"2">>), 1),
      ById(RedUser, Str(<<"3">>), 2),
      ById(RedUser, Str(<<"1">>), 7) }

CacheAdjusts ==
    { AdjustRequest(WhiteUser, Str(<<"2">>), Str(<<"5">>), Absent),
      AdjustRequest(WhiteUser, Str(<<"3">>), Str(<<"5">>), Absent),
      AdjustRequest(WhiteUser, Str(<<"1">>), Str(<<"x">>), Absent) }

CacheAdds ==
    { AddRequest(WhiteUser, Str(<<"a">>), Absent, NoDT, NoDT),
      AddRequest(WhiteUser, Str(<<"a">>), Absent, Naive(61), Naive(61)),
      AddRequest(RedUser, Str(<<"a">>), Absent, NoDT, NoDT) }

CacheSubmit == SubmitOf(Workers, CacheSubmits)

CacheAdjust == AdjustOf(CacheAdjusts)

CacheAdd == AddOf(CacheAdds)

NextCache == CacheSubmit \/ Commit \/ Invalidate \/ CacheAdjust \/ CacheAdd

\* A handler whose commit returned runs on to its cache updates
SpecCache ==
    /\ Init
    /\ [][NextCache]_vars
    /\ \A w \in Workers : WF_vars(SubmitInvalidate(w))

Rejections == {Forbidden, BadRequest, InvalidTarget, NotFound, NotActive, Conflict}

\* A create-flag step inserts its row
Creates == Len(flags') = Len(flags) + 1

\* C14: a submit whose commit inserted its row goes on to invalidate
\* scoreboard, team_stats(target) and flags, and does so in a later step
\* than the commit; an adjust_score that inserted its row invalidates
\* scoreboard and team_stats(target); a create-flag that inserted its row
\* invalidates flags; nothing else invalidates anything: not a rejected
\* request, and not a submit whose commit was rolled back.
C14_InvalidateAfterCommit ==
    /\ [][\A w \in Workers :
            /\ Commits(w) => invalidated' = {}
            /\ (Commits(w) /\ submissions' = submissions)
               => (pc'[w] = "idle" /\ out' = Conflict)
            /\ Responds(w) =>
                 /\ \E i \in 1..Len(submissions) : submissions[i] = req[w]
                 /\ invalidated' = {ScopeScoreboard, ScopeFlags,
                                    ScopeTeamStats(req[w].target_team_id)}]_vars
    /\ [][Adjusts =>
            invalidated' = {ScopeScoreboard,
                            ScopeTeamStats(LastRow(adjustments').target_team_id)}]_vars
    /\ [][Creates => invalidated' = {ScopeFlags}]_vars
    /\ [][invalidated' # {} =>
            \/ \E w \in Workers : Responds(w)
            \/ Adjusts
            \/ Creates]_vars
    /\ [][out' \in Rejections
          => /\ invalidated' = {}
             /\ <<flags, submissions, adjustments>>' = <<flags, submissions, adjustments>>
             /\ \A w \in Workers : pc'[w] # "invalidate"
                                   \/ pc[w] = "invalidate"]_vars
    /\ [](\A w \in Workers :
            pc[w] = "invalidate" => \E i \in 1..Len(submissions) : submissions[i] = req[w])
    /\ \A w \in Workers : (pc[w] = "invalidate") ~> (pc[w] = "idle")

\* A submit was just answered 200 with its three scopes invalidated, after
\* an adjustment and a created flag.
C14_Witness ==
    /\ invalidated = {ScopeScoreboard, ScopeFlags, ScopeTeamStats(1)}
    /\ out = Ok(10)
    /\ Len(adjustments) >= 1
    /\ Len(flags) > Len(SeedFlags)

(***************************************************************************)
(* SpecSigned: the penalty setting takes every integer a Setting row can   *)
(* spell, negative ones included, while a red team submits.                *)
(***************************************************************************)
SignedSettings ==
    { Absent, Str(<<"0">>), Str(<<" ", "5">>), Str(<<"-", "5">>), Str(<<"a", "b", "c">>) }

SignedSetting == \E st \in SignedSettings : ChangeSetting(st)

SignedSubmit == SubmitOf({1}, PenaltySubmits)

NextSigned == SignedSetting \/ SignedSubmit \/ Commit \/ Invalidate \/ Award

SpecSigned == Init /\ [][NextSigned]_vars

\* C16: the points of every RedFlagSubmission are >= 0 whatever the setting
\* red_team_flag_submission_penalty holds, and a committed submission never
\* raises the total of its target team.
C16_AsStated ==
    /\ [](\A i \in 1..Len(submissions) : submissions[i].points >= 0)
    /\ [][\A w \in Workers :
            Inserts(w) => Total(req[w].target_team_id)' <= Total(req[w].target_team_id)]_vars

(***************************************************************************)
(* The Round Scheduler: rounds Pending -> Running -> Completed, one unit   *)
(* of work per enabled service, run by a bounded pool; a unit is queued,   *)
(* running or done.  round.order lists the services of the current round   *)
(* in the order their results were persisted.                              *)
(***************************************************************************)
PoolSize == 2

CheckResult(service, number, status, output) ==
    [service |-> service, round |-> number, status |-> status, output |-> output]

\* The exit outcomes the check of a service is run with, the services whose
\* check may hang, and those whose check may fail to spawn
ExitStatuses(s) == IF s = 1 THEN {"Pass"} ELSE IF s = 2 THEN {"Fail"} ELSE {"Pass", "Fail"}

MayHang == {3}

MayFailToSpawn == {2}

Running(r) == {s \in EnabledServices : r.unit[s] = "running"}

Unresolved(r) == {s \in EnabledServices : r.unit[s] # "done"}

\* The CheckResult rows the deadline writes: one Error per service of S
DeadlineRows(S, number) ==
    SetToBag({CheckResult(s, number, "Error", "round deadline") : s \in S})

\* The unit of service s ends with the outcome persisted
Resolve(s, status, output) ==
    /\ results' = results (+) SetToBag({CheckResult(s, round.number, status, output)})
    /\ round' = [round EXCEPT !.unit[s] = "done", !.order = Append(@, s)]

RoundFrame == UNCHANGED <<core, early_mins, view, solves, totals, irc>>

\* The scheduler creates the next round
CreateRound ==
    /\ round.status = "Completed"
    /\ round.number < MaxRounds
    /\ round' = [number |-> round.number + 1, status |-> "Pending",
                 unit |-> [s \in EnabledServices |-> "queued"],
                 runs |-> [s \in EnabledServices |-> 0],
                 order |-> <<>>]
    /\ UNCHANGED results
    /\ RoundFrame

\* The round enters Running: its units may be picked up by the pool
StartRound ==
    /\ round.status = "Pending"
    /\ round' = [round EXCEPT !.status = "Running"]
    /\ UNCHANGED results
    /\ RoundFrame

\* A free worker of the pool spawns the check of service s
StartCheck(s) ==
    /\ round.status = "Running"
    /\ round.unit[s] = "queued"
    /\ Cardinality(Running(round)) < PoolSize
    /\ round' = [round EXCEPT !.unit[s] = "running", !.runs[s] = @ + 1]
    /\ UNCHANGED results
    /\ RoundFrame

\* The spawn of the check of service s fails: Error
SpawnFails(s) ==
    /\ round.status = "Running"
    /\ round.unit[s] = "queued"
    /\ s \in MayFailToSpawn
    /\ Cardinality(Running(round)) < PoolSize
    /\ results' = results (+) SetToBag({CheckResult(s, round.number, "Error", "spawn failure")})
    /\ round' = [round EXCEPT !.unit[s] = "done", !.runs[s] = @ + 1,
                              !.order = Append(@, s)]
    /\ RoundFrame

\* The check of service s exits: status 0 is Pass, any other Fail
CheckExits(s, status) ==
    /\ round.status = "Running"
    /\ round.unit[s] = "running"
    /\ status \in ExitStatuses(s)
    /\ Resolve(s, status, "")
    /\ RoundFrame

\* CheckTimesOut putting the unit back in the queue
TimeoutRetries(s) ==
    /\ round.status = "Running"
    /\ round.unit[s] = "running"
    /\ s \in MayHang
    /\ results' = results (+) SetToBag({CheckResult(s, round.number, "Error", "timeout")})
    /\ round' = [round EXCEPT !.unit[s] = "queued"]
    /\ RoundFrame

\* The check of service s exceeds its timeout: it is terminated, Error
CheckTimesOut(s) ==
    /\ round.status = "Running"
    /\ round.unit[s] = "running"
    /\ s \in MayHang
    /\ Resolve(s, "Error", "timeout")
    /\ RoundFrame

\* Every outcome of the round is persisted
CompleteRound ==
    /\ round.status = "Running"
    /\ Unresolved(round) = {}
    /\ round' = [round EXCEPT !.status = "Completed"]
    /\ UNCHANGED results
    /\ RoundFrame

\* Deadline recording an Error for every service, resolved or not
DeadlineMarksAll ==
    /\ round.status = "Running"
    /\ results' = results (+) DeadlineRows(EnabledServices, round.number)
    /\ round' = [round EXCEPT !.status = "Completed",
                              !.unit = [s \in EnabledServices |-> "done"]]
    /\ RoundFrame

\* The round deadline is reached: every service not yet resolved is recorded
\* as Error, its unit cancelled, and the round completes
Deadline ==
    /\ round.status = "Running"
    /\ results' = results (+) DeadlineRows(Unresolved(round), round.number)
    /\ round' = [round EXCEPT !.status = "Completed",
                              !.unit = [s \in EnabledServices |-> "done"]]
    /\ RoundFrame

(***************************************************************************)
(* SpecRounds: the scheduler runs its rounds; the deadline of a running    *)
(* round is eventually reached.                                            *)
(***************************************************************************)
Spawn == \E s \in EnabledServices : StartCheck(s)

SpawnFailure == \E s \in EnabledServices : SpawnFails(s)

Exit == \E s \in EnabledServices, status \in {"Pass", "Fail"} : CheckExits(s, status)

Timeout == \E s \in EnabledServices : CheckTimesOut(s)

NextRounds ==
    \/ CreateRound \/ StartRound \/ Spawn \/ SpawnFailure \/ Exit \/ Timeout
    \/ CompleteRound \/ Deadline

SpecRounds == Init /\ [][NextRounds]_vars /\ WF_vars(Deadline)

(***************************************************************************)
(* Properties of the rounds.                                               *)
(***************************************************************************)
\* The number of CheckResult rows of service s for round n
RowCount(b, s, n) ==
    BagCardinality([r \in {x \in BagToSet(b) : x.service = s /\ x.round = n}
                      |-> CopiesIn(r, b)])

\* The rounds that are completed
CompletedRounds ==
    {n \in 1..round.number : n < round.number \/ round.status = "Completed"}

\* The statuses recorded for service s in round n
StatusesOf(b, s, n) == {x.status : x \in {y \in BagToSet(b) : y.service = s /\ y.round = n}}

\* C17: in every completed round every enabled service has exactly one
\* CheckResult, of status Pass, Fail or Error, and a service that is not
\* enabled has none; before completion no service has more than one; the
\* timeout or spawn failure of one service leaves the units of the others
\* as they were.
C17_OneResultPerRound ==
    /\ [](\A n \in CompletedRounds : \A s \in EnabledServices :
            /\ RowCount(results, s, n) = 1
            /\ StatusesOf(results, s, n) \subseteq {"Pass", "Fail", "Error"})
    /\ [](\A n \in 1..MaxRounds + 1 : \A s \in Services :
            /\ RowCount(results, s, n) <= 1
            /\ s \notin EnabledServices => RowCount(results, s, n) = 0
            /\ n > round.number => RowCount(results, s, n) = 0)
    /\ [][\A s \in EnabledServices :
            (round.unit[s] = "running" /\ round'.unit[s] = "done"
               /\ round'.status = "Running")
            => \A o \in EnabledServices \ {s} :
                  /\ round'.unit[o] = round.unit[o]
                  /\ RowCount(results', o, round.number)
                       = RowCount(results, o, round.number)]_vars

\* A round completed with S1 = Pass, S2 = Fail and S3 = Error by timeout,
\* the result of S3 persisted first.
C17_Witness ==
    /\ round.status = "Completed"
    /\ round.number = 1
    /\ round.order = <<3, 1, 2>>
    /\ CopiesIn(CheckResult(1, 1, "Pass", ""), results) = 1
    /\ CopiesIn(CheckResult(2, 1, "Fail", ""), results) = 1
    /\ CopiesIn(CheckResult(3, 1, "Error", "timeout"), results) = 1
    /\ BagCardinality(results) = 3

\* The round completes in this step
Completes == round.status = "Running" /\ round'.status = "Completed"

\* C18: a round that is Running reaches Completed, under its own number; it
\* completes either with every outcome already persisted or at the deadline,
\* which records Error for exactly the services still unresolved; a new
\* round is created only when the last one is Completed, with the next
\* number, for which no CheckResult exists yet; no check is run twice in a
\* round.
C18_RoundsComplete ==
    /\ \A n \in 1..MaxRounds :
          (round.number = n /\ round.status = "Running")
          ~> (round.number = n /\ round.status = "Completed")
    /\ [][Completes =>
            /\ round'.number = round.number
            /\ \A s \in EnabledServices :
                  /\ RowCount(results', s, round.number) = 1
                  /\ IF s \in Unresolved(round)
                     THEN CopiesIn(CheckResult(s, round.number, "Error", "round deadline"),
                                   results') = 1
                     ELSE RowCount(results, s, round.number) = 1]_vars
    /\ [][round'.number # round.number =>
            /\ round.status = "Completed"
            /\ round'.status = "Pending"
            /\ round'.number = round.number + 1
            /\ \A s \in Services : RowCount(results, s, round'.number) = 0]_vars
    /\ [][round'.status # round.status =>
            <<round.status, round'.status>> \in
               {<<"Completed", "Pending">>, <<"Pending", "Running">>,
                <<"Running", "Completed">>}]_vars
    /\ [](\A s \in EnabledServices : round.runs[s] <= 1)
    /\ [](\A s \in EnabledServices :
            round.status # "Running" => round.unit[s] # "running")

\* The second round was completed by its deadline while service 1 was
\* running and service 3 was still queued.
C18_Witness ==
    /\ round.number = 2
    /\ round.status = "Completed"
    /\ round.runs = [s \in EnabledServices |-> IF s = 3 THEN 0 ELSE 1]
    /\ round.order = <<2>>
    /\ CopiesIn(CheckResult(1, 2, "Error", "round deadline"), results) = 1
    /\ CopiesIn(CheckResult(3, 2, "Error", "round deadline"), results) = 1

(***************************************************************************)
(* The IRC check (scoring_engine/checks/irc.py).  A command is the         *)
(* sequence of its words; the values are strings, written as sequences of  *)
(* characters.                                                             *)
(***************************************************************************)
required_properties == {"timeout", "realname"}

\* CMD: the program, then the slots {0} .. {6}
Slot(n) == [slot |-> n, text |-> <<>>]

Text(t) == [slot |-> 0 - 1, text |-> t]

CMD == << Text(<<"i", "r", "c", "_", "c", "h", "e", "c", "k">>),
          Slot(0), Slot(1), Slot(2), Slot(3), Slot(4), Slot(5), Slot(6) >>

\* The characters a shell word may hold without quotes
SafeChars ==
    Digits \cup {".", "_", "-"} \cup {"a", "b", "c", "e", "h", "i", "k", "o", "p", "r",
                                      "s", "t", "u", "w", "S", "E"}

\* A value as a shell word: quoted when it holds another character
Quote(v) ==
    IF v # <<>> /\ \A i \in 1..Len(v) : v[i] \in SafeChars
    THEN v
    ELSE <<"'">> \o v \o <<"'">>

\* The template with each slot replaced by the word of its argument
Format(template, args) ==
    [i \in DOMAIN template |->
        IF template[i].slot < 0 THEN template[i].text
        ELSE Quote(args[template[i].slot + 1])]

\* command_format with realname before the second username
CommandFormatSwapped(host, port, properties, account) ==
    << host, port, properties.timeout, account.username, properties.realname,
       account.username, account.password >>

\* IRCCheck.command_format, account being self.get_random_account()
command_format(host, port, properties, account) ==
    << host, port, properties.timeout, account.username, account.username,
       properties.realname, account.password >>

\* The check of the IRC service is prepared: one account is drawn from the
\* pool and the command is built
IrcCommand ==
    /\ \E account \in irc.accounts :
          irc' = [irc EXCEPT !.command =
                     Format(CMD, command_format(irc.host, irc.port, irc.properties,
                                                account))]
    /\ UNCHANGED <<core, early_mins, view, solves, totals, round, results>>

(***************************************************************************)
(* SpecIrc: an IRC service with its properties and its pool of accounts,   *)
(* whose check is prepared again and again.                                *)
(***************************************************************************)
IrcHosts == { <<"1", ".", "2">>, <<"h">> }

IrcPorts == { <<"6", "7">>, <<"8">> }

IrcTimeouts == { <<"5">>, <<"1", "0">> }

IrcRealnames == { <<"S", " ", "E">>, <<"b", "o", "t">> }

IrcAccounts ==
    { [username |-> <<"u">>, password |-> <<"p">>],
      [username |-> <<"w">>, password |-> <<"p", " ", "w">>],
      [username |-> <<"p">>, password |-> <<"u">>] }

IrcServices ==
    { [host |-> h, port |-> p, properties |-> [timeout |-> t, realname |-> n],
       accounts |-> a, command |-> <<>>] :
        h \in IrcHosts, p \in IrcPorts, t \in IrcTimeouts, n \in IrcRealnames,
        a \in (SUBSET IrcAccounts) \ {{}} }

InitIrc ==
    /\ now = 60
    /\ flags = SeedFlags
    /\ submissions = <<>>
    /\ adjustments = <<>>
    /\ setting = Absent
    /\ availability = [t \in BlueTeams |-> 0]
    /\ pc = [w \in Workers |-> "idle"]
    /\ req = [w \in Workers |-> NoReq]
    /\ out = NoOut
    /\ invalidated = {}
    /\ rt = RTOff
    /\ early_mins = Str(<<"0">>)
    /\ view = NoView
    /\ solves = <<>>
    /\ totals = NoTotals
    /\ round = NoRound
    /\ results = EmptyBag
    /\ irc \in IrcServices

NextIrc == IrcCommand

SpecIrc == InitIrc /\ [][NextIrc]_vars

\* C19: the command of the IRC check is irc_check followed by the words of
\* host, port, the timeout property, the username, the username again, the
\* realname property and the password, in this order, username and password
\* being those of one account of the service.
C19_IrcCommand ==
    [](irc.command # <<>> =>
         /\ DOMAIN irc.properties = required_properties
         /\ \E a \in irc.accounts :
              irc.command =
                 << <<"i", "r", "c", "_", "c", "h", "e", "c", "k">>,
                    Quote(irc.host),
                    Quote(irc.port),
                    Quote(irc.properties.timeout),
                    Quote(a.username),
                    Quote(a.username),
                    Quote(irc.properties.realname),
                    Quote(a.password) >>)

\* The command built for host 1.2, port 67, timeout 5, realname "S E" and
\* the account w, from a pool of three accounts.
C19_Witness ==
    /\ Cardinality(irc.accounts) = 3
    /\ irc.command =
          << <<"i", "r", "c", "_", "c", "h", "e", "c", "k">>,
             <<"1", ".", "2">>, <<"6", "7">>, <<"5">>, <<"w">>, <<"w">>,
             <<"'", "S", " ", "E", "'">>, <<"'", "p", " ", "w", "'">> >>

(***************************************************************************)
(* GET /api/flags/totals: the attacker score of each blue team per         *)
(* platform.  Scores are counted in half points (1.0 is 2, 0.5 is 1).      *)
(***************************************************************************)
Platforms == <<"windows", "nix">>

Solve(team_id, host, flag_id) == [team_id |-> team_id, host |-> host, flag_id |-> flag_id]

\* Solve JOIN Flag ON Flag.id = Solve.flag_id WHERE Flag.platform = p
JoinedSolves(sv, f, p) ==
    {i \in 1..Len(sv) : sv[i].flag_id \in 1..Len(f) /\ f[sv[i].flag_id].platform = p}

\* GROUP BY Solve.team_id, Flag.platform, Solve.host, Flag.start_time
GroupKey(sv, f, i) == <<sv[i].team_id, sv[i].host, f[sv[i].flag_id].start_time>>

SolveGroups(sv, f, p) == {GroupKey(sv, f, i) : i \in JoinedSolves(sv, f, p)}

\* GroupLevel that is "root" only when every flag of the group is Root
LevelAllRoot(sv, f, p, g) ==
    IF \A i \in JoinedSolves(sv, f, p) :
          GroupKey(sv, f, i) = g => f[sv[i].flag_id].perm = "root"
    THEN "root"
    ELSE "user"

\* case(max(case(perm == root, 1, else 0)) == 1, "root", else "user")
GroupLevel(sv, f, p, g) ==
    IF \E i \in JoinedSolves(sv, f, p) :
          GroupKey(sv, f, i) = g /\ f[sv[i].flag_id].perm = "root"
    THEN "root"
    ELSE "user"

\* subquery2: per (team, level), 0.5 * count for "user" and 1 * count else
red_amt(sv, f, p, team, level) ==
    LET n == Cardinality({g \in SolveGroups(sv, f, p) :
                             g[1] = team /\ GroupLevel(sv, f, p, g) = level})
    IN  IF level = "user" THEN n ELSE 2 * n

\* The levels that have a row for the team in subquery2
LevelsOf(sv, f, p, team) ==
    {GroupLevel(sv, f, p, g) : g \in {h \in SolveGroups(sv, f, p) : h[1] = team}}

RECURSIVE SumAmt(_, _, _, _, _)
\* final query: SUM(red_amt) over the rows of the team
SumAmt(sv, f, p, team, levels) ==
    IF levels = {} THEN 0
    ELSE LET l == CHOOSE x \in levels : TRUE
         IN  red_amt(sv, f, p, team, l) + SumAmt(sv, f, p, team, levels \ {l})

\* The teams with a row in the final query (JOIN Team)
ScoredTeams(sv, f, p) == {g[1] : g \in SolveGroups(sv, f, p)} \cap TeamIds

RedScore(sv, f, p, team) == SumAmt(sv, f, p, team, LevelsOf(sv, f, p, team))

\* totals[...][1] for windows, [2] for nix; 0 for a team without a row
PlatformScore(sv, f, p, team) ==
    IF team \in ScoredTeams(sv, f, p) THEN RedScore(sv, f, p, team) ELSE 0

\* Blue teams in the order of their id
RECURSIVE Ascending(_)
Ascending(S) ==
    IF S = {} THEN <<>>
    ELSE LET x == CHOOSE y \in S : \A z \in S : y <= z
         IN  <<x>> \o Ascending(S \ {x})

TotalsRow(sv, f, team) ==
    [team |-> team,
     win_score |-> PlatformScore(sv, f, "windows", team),
     nix_score |-> PlatformScore(sv, f, "nix", team),
     total_score |-> PlatformScore(sv, f, "windows", team)
                     + PlatformScore(sv, f, "nix", team)]

\* The response: 403 for a user neither red nor white; the assignment into
\* totals[row.BlueTeam] raises KeyError for a scored team that is not blue
TotalsResponse(sv, f, user) ==
    IF ~is_red_team(user) /\ ~is_white_team(user)
    THEN [code |-> "403 Unauthorized", data |-> <<>>]
    ELSE IF \E i \in 1..Len(Platforms) : ~(ScoredTeams(sv, f, Platforms[i]) \subseteq BlueTeams)
    THEN [code |-> "500 error", data |-> <<>>]
    ELSE [code |-> "200 ok",
          data |-> [k \in 1..Cardinality(BlueTeams) |->
                       TotalsRow(sv, f, Ascending(BlueTeams)[k])]]

api_flags_totals(user) ==
    /\ totals' = TotalsResponse(solves, flags, user)
    /\ out' = NoOut
    /\ invalidated' = {}
    /\ UNCHANGED <<now, flags, submissions, adjustments, setting, availability,
                   pc, req, rt, early_mins, view, solves, round, results, irc>>

\* An agent reports the token of a flag on a host of a team
AddSolve(team_id, host, flag_id) ==
    /\ Len(solves) < MaxSolves
    /\ solves' = Append(solves, Solve(team_id, host, flag_id))
    /\ out' = NoOut
    /\ invalidated' = {}
    /\ UNCHANGED <<now, flags, submissions, adjustments, setting, availability,
                   pc, req, rt, early_mins, view, totals, round, results, irc>>

(***************************************************************************)
(* SpecTotals: agents report solves of five planted flags on the hosts of  *)
(* the teams, and the totals are read.                                     *)
(***************************************************************************)
TotalsFlags ==
    << [id |-> 1, platform |-> "nix", perm |-> "user",
        data |-> FlagData(<<"b", " ">>, <<"a">>),
        start_time |-> 60, end_time |-> 61, dummy |-> FALSE],
       [id |-> 2, platform |-> "nix", perm |-> "user",
        data |-> FlagData(<<>>, <<" ", "c">>),
        start_time |-> 60, end_time |-> 240, dummy |-> FALSE],
       [id |-> 3, platform |-> "windows", perm |-> "root",
        data |-> FlagData(<<"d">>, <<>>),
        start_time |-> 60, end_time |-> 240, dummy |-> FALSE],
       [id |-> 4, platform |-> "nix", perm |-> "root",
        data |-> FlagData(<<"e">>, <<>>),
        start_time |-> 60, end_time |-> 61, dummy |-> FALSE],
       [id |-> 5, platform |-> "windows", perm |-> "user",
        data |-> FlagData(<<"f">>, <<>>),
        start_time |-> 61, end_time |-> 240, dummy |-> FALSE] >>

SolveReports ==
    { Solve(1, "a", f) : f \in 1..5 }
    \cup { Solve(1, "b", 1), Solve(2, "a", 4), Solve(3, "a", 1) }

TotalsUsers == {RedUser, WhiteUser, BlueUser}

InitTotals ==
    /\ now = 60
    /\ flags = TotalsFlags
    /\ submissions = <<>>
    /\ adjustments = <<>>
    /\ setting = Absent
    /\ availability = [t \in BlueTeams |-> 0]
    /\ pc = [w \in Workers |-> "idle"]
    /\ req = [w \in Workers |-> NoReq]
    /\ out = NoOut
    /\ invalidated = {}
    /\ rt = RTOff
    /\ AuxInit

Report == \E r \in SolveReports : AddSolve(r.team_id, r.host, r.flag_id)

ReadTotals == \E u \in TotalsUsers : api_flags_totals(u)

NextTotals == Report \/ ReadTotals

SpecTotals == InitTotals /\ [][NextTotals]_vars

(***************************************************************************)
(* Properties of the totals.                                               *)
(***************************************************************************)
\* The solves of the team on flags of the platform
SolvesOf(team, p) ==
    {i \in 1..Len(solves) : solves[i].team_id = team /\ flags[solves[i].flag_id].platform = p}

\* The groups of the team's solves by host and flag time window
WindowGroups(team, p) ==
    {<<solves[i].host, flags[solves[i].flag_id].start_time,
       flags[solves[i].flag_id].end_time>> : i \in SolvesOf(team, p)}

\* The groups of the team's solves by host and flag start time
StartGroups(team, p) ==
    {<<solves[i].host, flags[solves[i].flag_id].start_time>> : i \in SolvesOf(team, p)}

RootWindows(team, p) ==
    {g \in WindowGroups(team, p) :
        \E i \in SolvesOf(team, p) :
            /\ solves[i].host = g[1]
            /\ flags[solves[i].flag_id].start_time = g[2]
            /\ flags[solves[i].flag_id].end_time = g[3]
            /\ flags[solves[i].flag_id].perm = "root"}

RootStarts(team, p) ==
    {g \in StartGroups(team, p) :
        \E i \in SolvesOf(team, p) :
            /\ solves[i].host = g[1]
            /\ flags[solves[i].flag_id].start_time = g[2]
            /\ flags[solves[i].flag_id].perm = "root"}

\* 1.0 per Root group and 0.5 per User group, in half points
Weighted(groups, roots) == 2 * Cardinality(roots) + Cardinality(groups \ roots)

\* The totals are read and answered with 200
ReadsTotals == totals' # totals /\ totals'.code = "200 ok"

\* C20 as stated: the groups are the solves that share team, host and the
\* time window of the flag.
C20_AsStated ==
    [][ReadsTotals =>
         \A k \in DOMAIN totals'.data :
            LET row == totals'.data[k]
            IN  /\ row.win_score = Weighted(WindowGroups(row.team, "windows"),
                                            RootWindows(row.team, "windows"))
                /\ row.nix_score = Weighted(WindowGroups(row.team, "nix"),
                                            RootWindows(row.team, "nix"))
                /\ row.total_score = row.win_score + row.nix_score]_vars

\* C20, amended: for each blue team and platform the score is 1.0 per Root
\* group and 0.5 per User group, a group being the solves that share team,
\* host and the start_time of the flag, Root when a Root flag was solved in
\* it; total_score = win_score + nix_score; one row per blue team, all zero
\* for a team without solves.
C20_AttackerTotals ==
    /\ [][ReadsTotals =>
            /\ {totals'.data[k].team : k \in DOMAIN totals'.data} = BlueTeams
            /\ Len(totals'.data) = Cardinality(BlueTeams)
            /\ \A k \in DOMAIN totals'.data :
                  LET row == totals'.data[k]
                  IN  /\ row.win_score = Weighted(StartGroups(row.team, "windows"),
                                                  RootStarts(row.team, "windows"))
                      /\ row.nix_score = Weighted(StartGroups(row.team, "nix"),
                                                  RootStarts(row.team, "nix"))
                      /\ row.total_score = row.win_score + row.nix_score
                      /\ (\A i \in 1..Len(solves) : solves[i].team_id # row.team)
                         => row.total_score = 0]_vars
    /\ [](\A u \in TotalsUsers :
            LET res == TotalsResponse(solves, flags, u)
            IN  res.code = "200 ok" =>
                  \A k \in DOMAIN res.data :
                     res.data[k].total_score
                        = Weighted(StartGroups(res.data[k].team, "windows"),
                                   RootStarts(res.data[k].team, "windows"))
                          + Weighted(StartGroups(res.data[k].team, "nix"),
                                     RootStarts(res.data[k].team, "nix")))

\* Team 1 was just shown 1.0 for a nix group holding a User and a Root flag
\* and 0.5 for a windows group, team 2 zero.
C20_Witness ==
    /\ totals.code = "200 ok"
    /\ solves = <<Solve(1, "a", 1), Solve(1, "a", 4), Solve(1, "a", 5)>>
    /\ totals.data[1] = [team |-> 1, win_score |-> 1, nix_score |-> 2, total_score |-> 3]
    /\ totals.data[2] = [team |-> 2, win_score |-> 0, nix_score |-> 0, total_score |-> 0]

(***************************************************************************)
(* SpecFrame: two request workers serve submits against both blue teams    *)
(* while the white team adjusts the scores of both blue teams and creates  *)
(* a flag.                                                                 *)
(***************************************************************************)
FrameSubmits ==
    { ById(RedUser, Str(<<"1">>), 2),
      ById(RedUser2, Str(<<"1">>), 2),
      ById(RedUser, Str(<<"2">>), 2),
      ById(RedUser, Str(<<"2">>), 7) }

FrameAdjusts ==
    { AdjustRequest(WhiteUser, Str(<<"1">>), Str(<<"-", "2", "0">>), Absent),
      AdjustRequest(WhiteUser, Str(<<"2">>), Str(<<"5">>), Absent),
      AdjustRequest(WhiteUser, Str(<<"3">>), Str(<<"5">>), Absent) }

FrameAdds == { AddRequest(WhiteUser, Str(<<"a">>), Absent, NoDT, NoDT) }

FrameSubmit == SubmitOf(Workers, FrameSubmits)

FrameAdjust == AdjustOf(FrameAdjusts)

FrameAdd == AddOf(FrameAdds)

NextFrame == FrameSubmit \/ Commit \/ Invalidate \/ FrameAdjust \/ FrameAdd

SpecFrame == Init /\ [][NextFrame]_vars

\* rows' is rows with further rows after it
Extends(rows) ==
    /\ Len(rows') >= Len(rows)
    /\ \A i \in 1..Len(rows) : rows'[i] = rows[i]

\* An adjust_score is answered 200 for target team t
AdjustsOk(t) ==
    /\ out'.code = "200 ok"
    /\ invalidated' = {ScopeScoreboard, ScopeTeamStats(t)}

\* The penalty and adjustment sums of every team but t are left as they were
OthersKeepSums(t) ==
    \A u \in TeamIds \ {t} :
       /\ RedPenalty(u)' = RedPenalty(u)
       /\ ManualAdjustment(u)' = ManualAdjustment(u)

\* C21: a submit whose commit succeeds adds exactly one RedFlagSubmission
\* row, and an adjust_score answered 200 adds exactly one ScoreAdjustment
\* row; neither changes or removes a Flag, RedFlagSubmission or
\* ScoreAdjustment row that exists, in any of its steps, and the penalty and
\* adjustment sums of every team other than the target stay as they were,
\* with the steps of requests on other teams in between.
C21_AppendOnlyFrame ==
    /\ [][\A w \in Workers :
            /\ Inserts(w)
               => /\ submissions' = Append(submissions, req[w])
                  /\ adjustments' = adjustments
                  /\ flags' = flags
                  /\ OthersKeepSums(req[w].target_team_id)
            /\ (Begins(w) \/ Responds(w))
               => <<flags, submissions, adjustments>>'
                    = <<flags, submissions, adjustments>>]_vars
    /\ [][\A t \in TeamIds :
            AdjustsOk(t)
            => /\ Len(adjustments') = Len(adjustments) + 1
               /\ Extends(adjustments)
               /\ LastRow(adjustments').target_team_id = t
               /\ LastRow(adjustments').points = out'.points
               /\ submissions' = submissions
               /\ flags' = flags
               /\ OthersKeepSums(t)]_vars
    /\ [][Extends(flags) /\ Extends(submissions) /\ Extends(adjustments)]_vars

\* An adjustment of one blue team was just answered 200 after an adjustment
\* of the other, between the commit and the response of a submit, with
\* penalties of both blue teams in the table.
C21_Witness ==
    /\ Len(adjustments) = 2
    /\ adjustments[1].target_team_id # adjustments[2].target_team_id
    /\ out.code = "200 ok"
    /\ invalidated = {ScopeScoreboard, ScopeTeamStats(adjustments[2].target_team_id)}
    /\ \E w \in Workers : pc[w] = "invalidate"
    /\ Len(submissions) = 2
    /\ submissions[1].target_team_id # submissions[2].target_team_id

(***************************************************************************)
(* The submission window and the visibility window (SpecList).             *)
(***************************************************************************)
\* A submit of a red user against a blue team that names flag i passes the
\* checks of the handler at now
Accepts(i) == SubmitCheck(flags, now, RedUser, Str(<<"1">>), i, Absent, i) = NoOut

====
